---- MODULE Spec2Model ----
(***************************************************************************)
(* Model of two upipe stages:                                              *)
(*   - the TS PID demultiplexer  lib/upipe-ts/upipe_ts_split.c             *)
(*   - the DVB-CSA descrambler   lib/upipe-dvbcsa/upipe_dvbcsa_decrypt.c   *)
(* Each handler of the C code is one action.  The variables sp_op, events, *)
(* delivered, freed and dec_res record what the last handler did (status   *)
(* returned, events thrown, packets output, buffers freed) so that the     *)
(* properties can talk about one call.                                     *)
(***************************************************************************)
EXTENDS Integers, Sequences, FiniteSets, TLC

\* ------------------------------------------------------------------ bounds
\* number of output subpipe handles of the demultiplexer
NumOutputs == 2
\* cap on the length of one PID slot's output list
MaxSlotLen == 3

\* --------------------------------------------------------- program constants
MAX_PIDS == 8192
TS_HEADER_SIZE == 4

Outputs == 1..NumOutputs

\* PIDs a subscriber's flow definition may carry in the model: the two ends of
\* the valid range.
SubPids == {0, MAX_PIDS - 1}
\* PIDs a data packet may carry: the above and one nobody ever subscribes to.
PacketPids == SubPids \cup {256}

VARIABLES
    flow_def_ok,  \* upipe_ts_split.flow_def_ok
    pids,         \* upipe_ts_split.pids[]: [outputs, set] per PID
    outs,         \* per output handle: [alive, flow_def]
    fault,        \* the process ran into a memory fault (undefined behaviour)
    sp_op,        \* the last demultiplexer call and its status
    events,       \* events thrown by the last call, in order
    delivered,    \* urefs handed to outputs by the last call, in order
    freed,        \* number of uref_free() calls on the input uref in the last call
    key,          \* upipe_dvbcsa_dec.key: <<>> (NULL) or <<control word>>
    dec_pids,     \* the PID list of upipe_dvbcsa_dec.common
    dec_flow_def, \* upipe_dvbcsa_dec.flow_def: <<>> (NULL) or <<definition>>
    dec_op,       \* the last descrambler call, its argument and its status
    dec_res       \* what the last descrambler call output, freed, decrypted, logged

split_vars == <<flow_def_ok, pids, outs, sp_op, events, delivered, freed>>

dec_vars == <<key, dec_pids, dec_flow_def, dec_op, dec_res>>

vars == <<flow_def_ok, pids, outs, fault, sp_op, events, delivered, freed,
          key, dec_pids, dec_flow_def, dec_op, dec_res>>

\* ------------------------------------------------------------ demultiplexer

\* "block.mpegts." (upipe_ts_split.c:47), one element per character
EXPECTED_FLOW_DEF ==
    <<"b","l","o","c","k",".","m","p","e","g","t","s",".">>

\* flow definition strings the upstream pipe may send
FlowDefs ==
    { EXPECTED_FLOW_DEF \o <<"x">>,
      SubSeq(EXPECTED_FLOW_DEF, 1, 12) }

\* ubase_ncmp(string, prefix): true when string does NOT start with prefix
ubase_ncmp(string, prefix) ==
    ~(Len(string) >= Len(prefix) /\ SubSeq(string, 1, Len(prefix)) = prefix)

\* A TS header: sync byte, 3 flag bits + PID high bits, PID low bits, and
\* scrambling (2 bits), adaptation field control (2 bits), continuity (4 bits).
TsHeader(flags, pid, b3) ==
    <<71, flags * 32 + (pid \div 256), pid % 256, b3>>

\* ts_get_pid(): ((p_ts[1] & 0x1f) << 8) | p_ts[2]
ts_get_pid(ts) == (ts[2] % 32) * 256 + ts[3]

\* block contents of the data urefs fed to the demultiplexer; the second
\* header has payload_unit_start set, the last one is too short for a header
SplitPackets ==
    { TsHeader(0, p, 16) : p \in PacketPids }
    \cup { TsHeader(2, MAX_PIDS - 1, 16), <<71, 0, 0>> }

\* uref_block_peek(uref, 0, TS_HEADER_SIZE, buffer): fails on a short block
uref_block_peek_ok(block) == Len(block) >= TS_HEADER_SIZE

\* an event thrown to the probe: name, PID argument (<<>> if none), the pipe it
\* is thrown on and the state of the uref passed with it
Ev(name, pid, on, arg) == [ev |-> name, pid |-> pid, on |-> on, arg |-> arg]

\* ulist_delete_foreach + ulist_delete on every node equal to output
ulist_delete_all(list, output) == SelectSeq(list, LAMBDA x : x # output)

\* a variant of upipe_ts_split_pid_check that never clears the flag
upipe_ts_split_pid_check_never_unsets(slot, pid, on) ==
    IF slot.outputs # <<>> /\ ~slot.set
    THEN [slot |-> [slot EXCEPT !.set = TRUE],
          ev |-> <<Ev("set_pid", <<pid>>, on, "none")>>]
    ELSE [slot |-> slot, ev |-> <<>>]

\* what upipe_ts_split_pid_check does to one slot: the new slot and the
\* events thrown on pipe `on`
upipe_ts_split_pid_check(slot, pid, on) ==
    IF slot.outputs # <<>>
    THEN IF ~slot.set
         THEN [slot |-> [slot EXCEPT !.set = TRUE],
               ev |-> <<Ev("set_pid", <<pid>>, on, "none")>>]
         ELSE [slot |-> slot, ev |-> <<>>]
    ELSE IF slot.set
         THEN [slot |-> [slot EXCEPT !.set = FALSE],
               ev |-> <<Ev("unset_pid", <<pid>>, on, "none")>>]
         ELSE [slot |-> slot, ev |-> <<>>]

upipe_ts_split_pid_set(slot, pid, output, on) ==
    upipe_ts_split_pid_check(
        [slot EXCEPT !.outputs = Append(@, output)], pid, on)

upipe_ts_split_pid_unset(slot, pid, output, on) ==
    upipe_ts_split_pid_check(
        [slot EXCEPT !.outputs = ulist_delete_all(@, output)], pid, on)

\* upipe_ts_split_output_set_flow_def calls upipe_ts_split_pid_unset with the
\* OUTPUT subpipe (line 189), so upipe_ts_split_from_upipe() yields an address
\* before the output structure and pids[pid] there is foreign memory: any list
\* head and any flag.  Node 0 stands for a foreign list node.
ForeignSlots == [outputs : {<<>>, <<0>>}, set : BOOLEAN]

Op(op, out, kind, arg, ret) ==
    [op |-> op, out |-> out, kind |-> kind, arg |-> arg, ret |-> ret]

\* the result of a descrambler call: the blocks output downstream, the
\* number of uref_free() calls, the dvbcsa_decrypt calls, the messages, the
\* keys handed to dvbcsa_key_free, the buffers attached to the uref in place
\* of the one it came with, and the memory writes with the buffer they go to
DecRes(output, nfreed, cipher, log) ==
    [output |-> output, freed |-> nfreed, cipher |-> cipher, log |-> log,
     key_free |-> <<>>, attached |-> <<>>, writes |-> <<>>]

\* a descrambler call: its name, its argument, the outcomes of the
\* allocations it made and the status it returned
DecOp(op, arg, env, ret) == [op |-> op, arg |-> arg, env |-> env, ret |-> ret]

Init ==
    /\ key = <<>>
    /\ dec_pids = {}
    /\ dec_flow_def = <<>>
    /\ dec_op = DecOp("alloc", <<>>, <<>>, "UBASE_ERR_NONE")
    /\ dec_res = DecRes(<<>>, 0, <<>>, <<>>)
    /\ flow_def_ok = FALSE
    /\ pids = [p \in PacketPids |-> [outputs |-> <<>>, set |-> FALSE]]
    /\ outs = [o \in Outputs |-> [alive |-> FALSE, flow_def |-> <<>>]]
    /\ fault = FALSE
    /\ sp_op = Op("alloc", 0, "", <<>>, TRUE)
    /\ events = <<Ev("ready", <<>>, "split", "none")>>
    /\ delivered = <<>>
    /\ freed = 0

\* flow definitions a caller may give to an output: no t.pid attribute, a
\* valid PID, or the first PID out of range
OutputFlowDefs == {<<>>} \cup { <<p>> : p \in SubPids \cup {MAX_PIDS} }

\* upipe_ts_split_output_alloc: a free handle becomes an output subpipe
upipe_ts_split_output_alloc(o) ==
    /\ ~fault
    /\ UNCHANGED dec_vars
    /\ ~outs[o].alive
    /\ outs' = [outs EXCEPT ![o] = [alive |-> TRUE, flow_def |-> <<>>]]
    /\ sp_op' = Op("output_alloc", o, "", <<>>, TRUE)
    /\ events' = <<Ev("ready", <<>>, "output", "none")>>
    /\ delivered' = <<>>
    /\ freed' = 0
    /\ UNCHANGED <<flow_def_ok, pids, fault>>

\* upipe_ts_split_output_release(upipe); last is what urefcount_release
\* returns: true when this was the last reference, and then the output is
\* removed from the slot of its flow definition's PID and freed
upipe_ts_split_output_release(o, last) ==
    /\ ~fault
    /\ UNCHANGED dec_vars
    /\ outs[o].alive
    /\ sp_op' = Op("output_release", o, "", <<>>, last)
    /\ delivered' = <<>>
    /\ freed' = 0
    /\ IF ~last
       THEN /\ events' = <<>>
            /\ UNCHANGED <<pids, outs>>
       ELSE LET fd == outs[o].flow_def
                r == upipe_ts_split_pid_unset(pids[fd[1]], fd[1], o, "split")
            IN /\ outs' = [outs EXCEPT ![o] = [alive |-> FALSE, flow_def |-> <<>>]]
               /\ IF fd # <<>>
                  THEN /\ pids' = [pids EXCEPT ![fd[1]] = r.slot]
                       /\ events' = r.ev \o <<Ev("dead", <<>>, "output", "none")>>
                  ELSE /\ UNCHANGED pids
                       /\ events' = <<Ev("dead", <<>>, "output", "none")>>
    /\ UNCHANGED <<flow_def_ok, fault>>

\* upipe_ts_split_output_set_flow_def(upipe, flow_def); dup_ok is whether
\* uref_dup succeeds, foreign is the memory the misdirected
\* upipe_ts_split_pid_unset of line 189 reads as a PID slot
upipe_ts_split_output_set_flow_def(o, flow_def, dup_ok, foreign) ==
    LET cur == outs[o].flow_def
        ev1 == IF cur # <<>>
               THEN upipe_ts_split_pid_unset(foreign, cur[1], o, "output").ev
               ELSE <<>>
        bad == flow_def = <<>> \/ flow_def[1] >= MAX_PIDS
        pid == flow_def[1] % 65536   \* the uint16_t parameter of pid_set
        r == upipe_ts_split_pid_set(pids[pid], pid, o, "split")
    IN
    /\ ~fault
    /\ UNCHANGED dec_vars
    /\ outs[o].alive
    /\ delivered' = <<>>
    /\ freed' = 0
    /\ UNCHANGED <<flow_def_ok, fault>>
    /\ IF bad
       THEN /\ outs' = [outs EXCEPT ![o].flow_def = <<>>]
            /\ events' = ev1
            /\ sp_op' = Op("set_flow_def", o, "", flow_def, FALSE)
            /\ UNCHANGED pids
       ELSE IF ~dup_ok
       THEN /\ outs' = [outs EXCEPT ![o].flow_def = <<>>]
            /\ events' = ev1 \o <<Ev("aerror", <<>>, "output", "none")>>
            /\ sp_op' = Op("set_flow_def", o, "", flow_def, FALSE)
            /\ UNCHANGED pids
       ELSE /\ Len(pids[pid].outputs) < MaxSlotLen
            /\ outs' = [outs EXCEPT ![o].flow_def = flow_def]
            /\ pids' = [pids EXCEPT ![pid] = r.slot]
            /\ events' = ev1 \o r.ev
            /\ sp_op' = Op("set_flow_def", o, "", flow_def, TRUE)

\* the same call when walking the foreign list of line 189 hits unmapped
\* memory: the process stops inside upipe_ts_split_pid_unset
upipe_ts_split_output_set_flow_def_fault(o) ==
    /\ ~fault
    /\ UNCHANGED dec_vars
    /\ outs[o].alive
    /\ outs[o].flow_def # <<>>
    /\ fault' = TRUE
    /\ sp_op' = Op("set_flow_def", o, "fault", <<>>, FALSE)
    /\ events' = <<>>
    /\ delivered' = <<>>
    /\ freed' = 0
    /\ UNCHANGED <<flow_def_ok, pids, outs>>

\* the fan-out loop of upipe_ts_split_work over one slot's list: the urefs
\* output, in order.  fail_at is the position at which uref_dup fails (0: it
\* never does); the last node (uchain->next == NULL) gets the uref itself.
RECURSIVE FanOut(_, _, _, _)
FanOut(list, i, block, fail_at) ==
    IF i > Len(list) \/ i = fail_at
    THEN <<>>
    ELSE <<[to |-> list[i],
            buf |-> IF i = Len(list) THEN "orig" ELSE "dup",
            block |-> block]>>
         \o FanOut(list, i + 1, block, fail_at)

\* variant of upipe_ts_split_work that keeps the uref of a PID nobody
\* listens to
upipe_ts_split_work_keep_unclaimed(block, fail_at) ==
    IF ~uref_block_peek_ok(block)
    THEN /\ events' = <<Ev("aerror", <<>>, "split", "none")>>
         /\ delivered' = <<>>
         /\ freed' = 1
    ELSE LET pid == ts_get_pid(block)
             list == pids[pid].outputs
             failed == fail_at >= 1 /\ fail_at < Len(list)
         IN /\ delivered' = FanOut(list, 1, block, IF failed THEN fail_at ELSE 0)
            /\ events' = IF failed
                         THEN <<Ev("aerror", <<>>, "split", "none")>>
                         ELSE <<>>
            /\ freed' = IF failed THEN 1 ELSE 0

\* variant of upipe_ts_split_work that reports the unreadable header and
\* then goes on to the fan-out with the PID of a zeroed header
upipe_ts_split_work_no_return(block, fail_at) ==
    IF ~uref_block_peek_ok(block)
    THEN /\ events' = <<Ev("aerror", <<>>, "split", "none")>>
         /\ delivered' = FanOut(pids[0].outputs, 1, block, 0)
         /\ freed' = 1
    ELSE LET pid == ts_get_pid(block)
             list == pids[pid].outputs
             failed == fail_at >= 1 /\ fail_at < Len(list)
         IN /\ delivered' = FanOut(list, 1, block, IF failed THEN fail_at ELSE 0)
            /\ events' = IF failed
                         THEN <<Ev("aerror", <<>>, "split", "none")>>
                         ELSE <<>>
            /\ freed' = IF failed \/ list = <<>> THEN 1 ELSE 0

\* variant of upipe_ts_split_work that frees the uref at the end of the
\* loop although the last output was handed it
upipe_ts_split_work_free_always(block, fail_at) ==
    IF ~uref_block_peek_ok(block)
    THEN /\ events' = <<Ev("aerror", <<>>, "split", "none")>>
         /\ delivered' = <<>>
         /\ freed' = 1
    ELSE LET pid == ts_get_pid(block)
             list == pids[pid].outputs
             failed == fail_at >= 1 /\ fail_at < Len(list)
         IN /\ delivered' = FanOut(list, 1, block, IF failed THEN fail_at ELSE 0)
            /\ events' = IF failed
                         THEN <<Ev("aerror", <<>>, "split", "none")>>
                         ELSE <<>>
            /\ freed' = 1

\* upipe_ts_split_work(upipe, uref, upump) on a uref holding block
upipe_ts_split_work(block, fail_at) ==
    IF ~uref_block_peek_ok(block)
    THEN /\ events' = <<Ev("aerror", <<>>, "split", "none")>>
         /\ delivered' = <<>>
         /\ freed' = 1
    ELSE LET pid == ts_get_pid(block)
             list == pids[pid].outputs
             failed == fail_at >= 1 /\ fail_at < Len(list)
         IN /\ delivered' = FanOut(list, 1, block, IF failed THEN fail_at ELSE 0)
            /\ events' = IF failed
                         THEN <<Ev("aerror", <<>>, "split", "none")>>
                         ELSE <<>>
            /\ freed' = IF failed \/ list = <<>> THEN 1 ELSE 0

\* the slot a data uref would be fanned out to holds a freed output
DanglingOutput(block) ==
    /\ uref_block_peek_ok(block)
    /\ \E i \in 1..Len(pids[ts_get_pid(block)].outputs) :
           ~outs[pids[ts_get_pid(block)].outputs[i]].alive

\* urefs the upstream pipe may send: a flow definition, a data uref without
\* buffer, a data uref with a block
SplitUrefs ==
    { [kind |-> "flow_def", data |-> d] : d \in FlowDefs \cup {EXPECTED_FLOW_DEF} }
    \cup { [kind |-> "nobuf", data |-> <<>>] }
    \cup { [kind |-> "data", data |-> b] : b \in SplitPackets }

\* variant of upipe_ts_split_input that leaves flow_def_ok as it is when the
\* flow definition is not the expected one
upipe_ts_split_input_keep_ready(uref, fail_at) ==
    /\ ~fault
    /\ UNCHANGED dec_vars
    /\ sp_op' = Op("input", 0, uref.kind, uref.data, TRUE)
    /\ UNCHANGED <<pids, outs, fault>>
    /\ IF uref.kind = "flow_def"
       THEN IF ubase_ncmp(uref.data, EXPECTED_FLOW_DEF)
            THEN /\ UNCHANGED flow_def_ok
                 /\ freed' = 1
                 /\ events' = <<Ev("flow_def_error", <<>>, "split", "freed")>>
                 /\ delivered' = <<>>
            ELSE /\ flow_def_ok' = TRUE
                 /\ freed' = 1
                 /\ events' = <<>>
                 /\ delivered' = <<>>
       ELSE /\ UNCHANGED flow_def_ok
            /\ IF ~flow_def_ok
               THEN /\ freed' = 1
                    /\ events' = <<Ev("flow_def_error", <<>>, "split", "freed")>>
                    /\ delivered' = <<>>
               ELSE IF uref.kind = "nobuf"
               THEN /\ freed' = 1
                    /\ events' = <<>>
                    /\ delivered' = <<>>
               ELSE upipe_ts_split_work(uref.data, fail_at)

\* upipe_ts_split_input(upipe, uref, upump)
upipe_ts_split_input(uref, fail_at) ==
    /\ ~fault
    /\ UNCHANGED dec_vars
    /\ sp_op' = Op("input", 0, uref.kind, uref.data, TRUE)
    /\ UNCHANGED <<pids, outs, fault>>
    /\ IF uref.kind = "flow_def"
       THEN IF ubase_ncmp(uref.data, EXPECTED_FLOW_DEF)
            THEN /\ flow_def_ok' = FALSE
                 /\ freed' = 1
                 /\ events' = <<Ev("flow_def_error", <<>>, "split", "freed")>>
                 /\ delivered' = <<>>
            ELSE /\ flow_def_ok' = TRUE
                 /\ freed' = 1
                 /\ events' = <<>>
                 /\ delivered' = <<>>
       ELSE /\ UNCHANGED flow_def_ok
            /\ IF ~flow_def_ok
               THEN /\ freed' = 1
                    /\ events' = <<Ev("flow_def_error", <<>>, "split", "freed")>>
                    /\ delivered' = <<>>
               ELSE IF uref.kind = "nobuf"
               THEN /\ freed' = 1
                    /\ events' = <<>>
                    /\ delivered' = <<>>
               ELSE upipe_ts_split_work(uref.data, fail_at)

\* upipe_ts_split_input when the list walked by upipe_ts_split_work holds a
\* freed output and reading it faults
upipe_ts_split_input_fault(uref) ==
    /\ ~fault
    /\ UNCHANGED dec_vars
    /\ flow_def_ok
    /\ uref.kind = "data"
    /\ DanglingOutput(uref.data)
    /\ fault' = TRUE
    /\ sp_op' = Op("input", 0, "fault", uref.data, FALSE)
    /\ events' = <<>>
    /\ delivered' = <<>>
    /\ freed' = 0
    /\ UNCHANGED <<flow_def_ok, pids, outs>>

\* the inputs that make a difference to a call: uref_dup is only reached with
\* a PID in range, line 189 only with a stored flow definition, and the
\* duplications of the fan-out only for nodes before the last
UrefDupOutcomes(fd) ==
    IF fd = <<>> \/ fd[1] >= MAX_PIDS THEN {TRUE} ELSE BOOLEAN

ForeignMemory(o) ==
    IF outs[o].flow_def = <<>>
    THEN {[outputs |-> <<>>, set |-> FALSE]}
    ELSE ForeignSlots

DupFailures(u) ==
    IF flow_def_ok /\ u.kind = "data" /\ uref_block_peek_ok(u.data)
    THEN {0} \cup (1..(Len(pids[ts_get_pid(u.data)].outputs) - 1))
    ELSE {0}

NextSplit ==
    \/ \E o \in Outputs : upipe_ts_split_output_alloc(o)
    \/ \E o \in Outputs, last \in BOOLEAN : upipe_ts_split_output_release(o, last)
    \/ \E o \in Outputs, fd \in OutputFlowDefs :
         \E dup_ok \in UrefDupOutcomes(fd) :
           \E foreign \in ForeignMemory(o) :
             upipe_ts_split_output_set_flow_def(o, fd, dup_ok, foreign)
    \/ \E o \in Outputs : upipe_ts_split_output_set_flow_def_fault(o)
    \/ \E u \in SplitUrefs :
         \E fail_at \in DupFailures(u) :
           upipe_ts_split_input(u, fail_at)
    \/ \E u \in SplitUrefs : upipe_ts_split_input_fault(u)

SpecSplit == Init /\ [][NextSplit]_vars

\* -------------------------------------------------------------- descrambler

\* value of a hexadecimal digit; anything else is not in the domain
HexVal ==
    [c \in {"0","1","2","3","4","5","6","7","8","9",
            "a","b","c","d","e","f"} |->
       CASE c = "0" -> 0 [] c = "1" -> 1 [] c = "2" -> 2 [] c = "3" -> 3
         [] c = "4" -> 4 [] c = "5" -> 5 [] c = "6" -> 6 [] c = "7" -> 7
         [] c = "8" -> 8 [] c = "9" -> 9 [] c = "a" -> 10 [] c = "b" -> 11
         [] c = "c" -> 12 [] c = "d" -> 13 [] c = "e" -> 14 [] c = "f" -> 15]

\* number of characters of a control word given as text
CwTextLen == 16

\* ustring_to_dvbcsa_cw(ustring_from_str(key)): the part of the text that was
\* decoded (empty when the text does not start with a control word) and the
\* control word's bytes
ustring_to_dvbcsa_cw(text) ==
    IF /\ Len(text) >= CwTextLen
       /\ \A i \in 1..CwTextLen : text[i] \in DOMAIN HexVal
    THEN [len |-> CwTextLen,
          value |-> [i \in 1..(CwTextLen \div 2) |->
                       16 * HexVal[text[2 * i - 1]] + HexVal[text[2 * i]]]]
    ELSE [len |-> 0, value |-> <<>>]

\* n copies of the character c
RECURSIVE Chars(_, _)
Chars(c, n) == IF n = 0 THEN <<>> ELSE <<c>> \o Chars(c, n - 1)

\* key texts a caller may pass: control words, a text too short, too long,
\* with a character that is no digit, with one after the control word, and
\* the word "bad"
KeyTexts ==
    { Chars("0", 8) \o Chars("7", 8),
      Chars("f", 16),
      Chars("0", 15),
      Chars("0", 17),
      Chars("0", 15) \o <<"g">>,
      Chars("0", 16) \o <<"g">>,
      <<"b","a","d">>,
      <<>> }

\* ts_get_scrambling(): (p_ts[3] & 0xc0) >> 6
ts_get_scrambling(ts) == ts[4] \div 64
\* ts_has_payload(): p_ts[3] & 0x10
ts_has_payload(ts) == (ts[4] \div 16) % 2 = 1
\* ts_has_adaptation(): p_ts[3] & 0x20
ts_has_adaptation(ts) == (ts[4] \div 32) % 2 = 1
\* ts_set_scrambling(ts, scrambling)
ts_set_scrambling(ts, scrambling) ==
    [ts EXCEPT ![4] = (@ % 64) + scrambling * 64]

\* dvbcsa_decrypt(key, data, len) of libdvbcsa, which this model does not
\* describe: a stand-in that depends on the key, the bytes and their place
dvbcsa_decrypt(cw, data) ==
    [i \in 1..Len(data) |-> (data[i] + cw[((i - 1) % Len(cw)) + 1] + i) % 256]

\* upipe_dvbcsa_common_check_pid(common, pid)
upipe_dvbcsa_common_check_pid(pid) == pid \in dec_pids

\* PIDs of the packets fed to the descrambler and of the add/del commands
DecPids == {256, MAX_PIDS - 1}

\* a block: header, the byte after it and filler bytes, cut to size
TsBlock(pid, tsc, afc, afl, size) ==
    SubSeq(TsHeader(0, pid, tsc * 64 + afc * 16) \o <<afl>>
             \o [i \in 1..183 |-> (i * 7) % 256],
           1, size)

\* blocks fed to the descrambler.  Every PID, scrambling control and
\* adaptation field control, as a bare header and as a header with 3 bytes;
\* a block shorter than a header; and for scrambled packets with a payload,
\* with and without adaptation field, short blocks and whole 188-byte TS
\* packets over the values of the byte after the header that matter.
DecBlocks ==
    { TsBlock(p, tsc, afc, 0, size) :
        p \in DecPids, tsc \in 0..3, afc \in 0..3, size \in {3, 4, 7} }
    \cup { TsBlock(p, 2, afc, afl, size) :
        p \in DecPids, afc \in {1, 3}, afl \in {0, 1, 3, 183}, size \in {5, 7} }
    \cup { TsBlock(p, 2, afc, afl, 188) :
        p \in DecPids, afc \in {1, 3}, afl \in {0, 182, 183, 255} }

\* variant of dec_pass_through that descrambles every packet marked as
\* scrambled, with either key parity
dec_pass_through_any_parity(block) ==
    \/ ts_get_scrambling(block) = 0
    \/ ~ts_has_payload(block)
    \/ ~upipe_dvbcsa_common_check_pid(ts_get_pid(block))

\* lines 161-162: the packet is output as it is
dec_pass_through(block) ==
    \/ ts_get_scrambling(block) # 2
    \/ ~ts_has_payload(block)
    \/ ~upipe_dvbcsa_common_check_pid(ts_get_pid(block))

\* variant of dec_adaptation that accepts an adaptation field length of 183
dec_adaptation_off_by_one(block) ==
    IF ~ts_has_adaptation(block)
    THEN [log |-> <<>>, ts_header_size |-> TS_HEADER_SIZE]
    ELSE IF Len(block) < TS_HEADER_SIZE + 1
    THEN [log |-> <<"fail to extract adaptation field length">>,
          ts_header_size |-> TS_HEADER_SIZE]
    ELSE IF block[TS_HEADER_SIZE + 1] > 183
    THEN [log |-> <<"invalid adaptation field received">>,
          ts_header_size |-> TS_HEADER_SIZE]
    ELSE [log |-> <<>>,
          ts_header_size |-> TS_HEADER_SIZE + block[TS_HEADER_SIZE + 1] + 1]

\* lines 167-181: the adaptation field.  The message logged when the packet
\* is dropped (<<>> when it is not) and the offset of the payload
dec_adaptation(block) ==
    IF ~ts_has_adaptation(block)
    THEN [log |-> <<>>, ts_header_size |-> TS_HEADER_SIZE]
    ELSE IF Len(block) < TS_HEADER_SIZE + 1
    THEN [log |-> <<"fail to extract adaptation field length">>,
          ts_header_size |-> TS_HEADER_SIZE]
    ELSE IF block[TS_HEADER_SIZE + 1] >= 183
    THEN [log |-> <<"invalid adaptation field received">>,
          ts_header_size |-> TS_HEADER_SIZE]
    ELSE [log |-> <<>>,
          ts_header_size |-> TS_HEADER_SIZE + block[TS_HEADER_SIZE + 1] + 1]

\* variant of dec_decrypt that leaves the scrambling bits as they were
dec_decrypt_keep_scrambling(ts, ts_header_size) ==
    SubSeq(ts, 1, ts_header_size)
        \o dvbcsa_decrypt(key[1], SubSeq(ts, ts_header_size + 1, Len(ts)))

\* lines 198-201 on the writable copy ts of the block: the scrambling bits
\* are cleared and the bytes from ts_header_size on are decrypted
dec_decrypt(ts, ts_header_size) ==
    LET clear == ts_set_scrambling(ts, 0) IN
    SubSeq(clear, 1, ts_header_size)
        \o dvbcsa_decrypt(key[1], SubSeq(clear, ts_header_size + 1, Len(clear)))

\* variant of dec_buffer_writes that maps the buffer the uref came with for
\* writing, without copying it
dec_buffer_writes_in_place(overrun) ==
    [attached |-> <<>>,
     writes |-> <<[buf |-> "received", by |-> "ts_set_scrambling"],
                  [buf |-> IF overrun THEN "beyond" ELSE "received",
                   by |-> "dvbcsa_decrypt"]>>]

\* lines 183-201: the buffer is copied, the copy is attached to the uref and
\* mapped for writing, and ts_set_scrambling and dvbcsa_decrypt write to
\* it; overrun is when dvbcsa_decrypt is handed a negative length and
\* writes to the memory beyond the copy
dec_buffer_writes(overrun) ==
    [attached |-> <<"copy">>,
     writes |-> <<[buf |-> "copy", by |-> "ts_set_scrambling"],
                  [buf |-> IF overrun THEN "beyond" ELSE "copy",
                   by |-> "dvbcsa_decrypt"]>>]

\* variant of dec_input_keyed that outputs a uref whose header it could
\* not read instead of freeing it
dec_input_keyed_short_passes(block, copy_ok, write_ok) ==
    LET af == dec_adaptation(block)
        call == [key |-> key[1], off |-> af.ts_header_size,
                 len |-> Len(block) - af.ts_header_size]
    IN
    IF ~uref_block_peek_ok(block)
    THEN [res |-> DecRes(<<block>>, 0, <<>>, <<"fail to read ts header">>),
          fault |-> FALSE]
    ELSE IF dec_pass_through(block)
    THEN [res |-> DecRes(<<block>>, 0, <<>>, <<>>), fault |-> FALSE]
    ELSE IF af.log # <<>>
    THEN [res |-> DecRes(<<>>, 1, <<>>, af.log), fault |-> FALSE]
    ELSE IF ~copy_ok
    THEN [res |-> DecRes(<<>>, 1, <<>>, <<"fail to allocate buffer">>),
          fault |-> FALSE]
    ELSE IF ~write_ok
    THEN [res |-> [DecRes(<<>>, 1, <<>>, <<"fail to write buffer">>)
                     EXCEPT !.attached = <<"copy">>],
          fault |-> FALSE]
    ELSE IF call.len < 0
    THEN [res |-> [DecRes(<<>>, 0, <<call>>, <<>>)
                     EXCEPT !.attached = dec_buffer_writes(TRUE).attached,
                            !.writes = dec_buffer_writes(TRUE).writes],
          fault |-> TRUE]
    ELSE [res |-> [DecRes(<<dec_decrypt(block, af.ts_header_size)>>,
                          0, <<call>>, <<>>)
                     EXCEPT !.attached = dec_buffer_writes(FALSE).attached,
                            !.writes = dec_buffer_writes(FALSE).writes],
          fault |-> FALSE]

\* lines 147-202, with a key: the result of the call and whether
\* dvbcsa_decrypt was handed a range outside the buffer
dec_input_keyed(block, copy_ok, write_ok) ==
    LET af == dec_adaptation(block)
        call == [key |-> key[1], off |-> af.ts_header_size,
                 len |-> Len(block) - af.ts_header_size]
    IN
    IF ~uref_block_peek_ok(block)
    THEN [res |-> DecRes(<<>>, 1, <<>>, <<"fail to read ts header">>),
          fault |-> FALSE]
    ELSE IF dec_pass_through(block)
    THEN [res |-> DecRes(<<block>>, 0, <<>>, <<>>), fault |-> FALSE]
    ELSE IF af.log # <<>>
    THEN [res |-> DecRes(<<>>, 1, <<>>, af.log), fault |-> FALSE]
    ELSE IF ~copy_ok
    THEN [res |-> DecRes(<<>>, 1, <<>>, <<"fail to allocate buffer">>),
          fault |-> FALSE]
    ELSE IF ~write_ok
    THEN [res |-> [DecRes(<<>>, 1, <<>>, <<"fail to write buffer">>)
                     EXCEPT !.attached = <<"copy">>],
          fault |-> FALSE]
    ELSE IF call.len < 0
    THEN \* dvbcsa_decrypt is handed a start past the end of the buffer and
         \* a negative length, which its unsigned parameter makes huge: it
         \* runs over the memory after the buffer until the process faults
         [res |-> [DecRes(<<>>, 0, <<call>>, <<>>)
                     EXCEPT !.attached = dec_buffer_writes(TRUE).attached,
                            !.writes = dec_buffer_writes(TRUE).writes],
          fault |-> TRUE]
    ELSE [res |-> [DecRes(<<dec_decrypt(block, af.ts_header_size)>>,
                          0, <<call>>, <<>>)
                     EXCEPT !.attached = dec_buffer_writes(FALSE).attached,
                            !.writes = dec_buffer_writes(FALSE).writes],
          fault |-> FALSE]

\* variant of dec_input_result that reads the header before it looks for
\* the key
dec_input_result_peek_first(block, copy_ok, write_ok) ==
    IF ~uref_block_peek_ok(block)
    THEN [res |-> DecRes(<<>>, 1, <<>>, <<"fail to read ts header">>),
          fault |-> FALSE]
    ELSE IF key = <<>>
    THEN [res |-> DecRes(<<block>>, 0, <<>>, <<>>), fault |-> FALSE]
    ELSE dec_input_keyed(block, copy_ok, write_ok)

\* lines 142-145, then the rest: without a key every uref is output as it is
dec_input_result(block, copy_ok, write_ok) ==
    IF key = <<>>
    THEN [res |-> DecRes(<<block>>, 0, <<>>, <<>>), fault |-> FALSE]
    ELSE dec_input_keyed(block, copy_ok, write_ok)

\* upipe_dvbcsa_dec_input(upipe, uref, upump_p) on a uref holding block;
\* copy_ok and write_ok are whether ubuf_block_copy and ubuf_block_write
\* succeed
upipe_dvbcsa_dec_input(block, copy_ok, write_ok) ==
    LET r == dec_input_result(block, copy_ok, write_ok) IN
    /\ ~fault
    /\ UNCHANGED split_vars
    /\ UNCHANGED <<key, dec_pids, dec_flow_def>>
    /\ dec_op' = DecOp("input", block,
                       [copy_ok |-> copy_ok, write_ok |-> write_ok], "")
    /\ dec_res' = r.res
    /\ fault' = r.fault

\* variant of upipe_dvbcsa_dec_set_flow_def that drops the stored flow
\* definition when it rejects the new one
upipe_dvbcsa_dec_set_flow_def_clears(def, dup_ok) ==
    /\ ~fault
    /\ UNCHANGED split_vars
    /\ UNCHANGED <<fault, key, dec_pids>>
    /\ dec_res' = DecRes(<<>>, 0, <<>>, <<>>)
    /\ IF ubase_ncmp(def, EXPECTED_FLOW_DEF)
       THEN /\ dec_op' = DecOp("set_flow_def", def, <<>>, "UBASE_ERR_INVALID")
            /\ dec_flow_def' = <<>>
       ELSE IF ~dup_ok
       THEN /\ dec_op' = DecOp("set_flow_def", def, <<>>, "UBASE_ERR_ALLOC")
            /\ UNCHANGED dec_flow_def
       ELSE /\ dec_op' = DecOp("set_flow_def", def, <<>>, "UBASE_ERR_NONE")
            /\ dec_flow_def' = <<def>>

\* upipe_dvbcsa_dec_set_flow_def(upipe, flow_def); def is the flow
\* definition's string, dup_ok whether uref_dup succeeds
upipe_dvbcsa_dec_set_flow_def(def, dup_ok) ==
    /\ ~fault
    /\ UNCHANGED split_vars
    /\ UNCHANGED <<fault, key, dec_pids>>
    /\ dec_res' = DecRes(<<>>, 0, <<>>, <<>>)
    /\ IF ubase_ncmp(def, EXPECTED_FLOW_DEF)
       THEN /\ dec_op' = DecOp("set_flow_def", def, <<>>, "UBASE_ERR_INVALID")
            /\ UNCHANGED dec_flow_def
       ELSE IF ~dup_ok
       THEN /\ dec_op' = DecOp("set_flow_def", def, <<>>, "UBASE_ERR_ALLOC")
            /\ UNCHANGED dec_flow_def
       ELSE /\ dec_op' = DecOp("set_flow_def", def, <<>>, "UBASE_ERR_NONE")
            /\ dec_flow_def' = <<def>>

\* variant of dec_set_key_result that keeps a key already set when it is
\* given another control word
dec_set_key_result_keep_first(text, alloc_ok) ==
    LET cw == ustring_to_dvbcsa_cw(text[1]) IN
    IF text = <<>>
    THEN [key |-> <<>>, ret |-> "UBASE_ERR_NONE", log |-> <<>>]
    ELSE IF cw.len = 0 \/ Len(text[1]) # cw.len
    THEN [key |-> <<>>, ret |-> "UBASE_ERR_INVALID", log |-> <<>>]
    ELSE IF ~alloc_ok
    THEN [key |-> <<>>, ret |-> "UBASE_ERR_ALLOC", log |-> <<"key changed">>]
    ELSE [key |-> IF key # <<>> THEN key ELSE <<cw.value>>,
          ret |-> "UBASE_ERR_NONE",
          log |-> <<"key changed">>]

\* variant of dec_set_key_result that parses the text before it frees the
\* key, so that a rejected text leaves the key in place
dec_set_key_result_parse_first(text, alloc_ok) ==
    LET cw == ustring_to_dvbcsa_cw(text[1]) IN
    IF text = <<>>
    THEN [key |-> <<>>, ret |-> "UBASE_ERR_NONE", log |-> <<>>]
    ELSE IF cw.len = 0 \/ Len(text[1]) # cw.len
    THEN [key |-> key, ret |-> "UBASE_ERR_INVALID", log |-> <<>>]
    ELSE IF ~alloc_ok
    THEN [key |-> <<>>, ret |-> "UBASE_ERR_ALLOC", log |-> <<"key changed">>]
    ELSE [key |-> <<cw.value>>, ret |-> "UBASE_ERR_NONE",
          log |-> <<"key changed">>]

\* lines 232-246: the key stored and the status returned by
\* upipe_dvbcsa_dec_set_key, and what it logs
dec_set_key_result(text, alloc_ok) ==
    LET cw == ustring_to_dvbcsa_cw(text[1]) IN
    IF text = <<>>
    THEN [key |-> <<>>, ret |-> "UBASE_ERR_NONE", log |-> <<>>]
    ELSE IF cw.len = 0 \/ Len(text[1]) # cw.len
    THEN [key |-> <<>>, ret |-> "UBASE_ERR_INVALID", log |-> <<>>]
    ELSE IF ~alloc_ok
    THEN [key |-> <<>>, ret |-> "UBASE_ERR_ALLOC", log |-> <<"key changed">>]
    ELSE [key |-> <<cw.value>>, ret |-> "UBASE_ERR_NONE",
          log |-> <<"key changed">>]

\* upipe_dvbcsa_dec_set_key(upipe, key): text is <<>> for a NULL pointer and
\* <<characters>> otherwise; alloc_ok is whether dvbcsa_key_alloc succeeds
upipe_dvbcsa_dec_set_key(text, alloc_ok) ==
    LET r == dec_set_key_result(text, alloc_ok) IN
    /\ ~fault
    /\ UNCHANGED split_vars
    /\ UNCHANGED <<fault, dec_pids, dec_flow_def>>
    /\ key' = r.key
    /\ dec_op' = DecOp("set_key", text, <<>>, r.ret)
    /\ dec_res' = [DecRes(<<>>, 0, <<>>, r.log) EXCEPT !.key_free = <<key>>]

\* UPIPE_DVBCSA_ADD_PID, handled by upipe_dvbcsa_common_control
upipe_dvbcsa_common_add_pid(pid) ==
    /\ ~fault
    /\ UNCHANGED split_vars
    /\ UNCHANGED <<fault, key, dec_flow_def>>
    /\ dec_pids' = dec_pids \cup {pid}
    /\ dec_op' = DecOp("add_pid", <<pid>>, <<>>, "UBASE_ERR_NONE")
    /\ dec_res' = DecRes(<<>>, 0, <<>>, <<>>)

\* UPIPE_DVBCSA_DEL_PID, handled by upipe_dvbcsa_common_control
upipe_dvbcsa_common_del_pid(pid) ==
    /\ ~fault
    /\ UNCHANGED split_vars
    /\ UNCHANGED <<fault, key, dec_flow_def>>
    /\ dec_pids' = dec_pids \ {pid}
    /\ dec_op' = DecOp("del_pid", <<pid>>, <<>>, "UBASE_ERR_NONE")
    /\ dec_res' = DecRes(<<>>, 0, <<>>, <<>>)

\* the allocations a packet reaches only on the decryption path
DecryptReached(block) ==
    /\ key # <<>>
    /\ uref_block_peek_ok(block)
    /\ ts_get_scrambling(block) = 2
    /\ ts_has_payload(block)
    /\ upipe_dvbcsa_common_check_pid(ts_get_pid(block))

AllocOutcomes(reached) == IF reached THEN BOOLEAN ELSE {TRUE}

\* dvbcsa_key_alloc is only reached with a text that is a control word
KeyAllocOutcomes(text) ==
    IF text # <<>> /\ dec_set_key_result(text, TRUE).key # <<>>
    THEN BOOLEAN
    ELSE {TRUE}

NextDec ==
    \/ \E block \in DecBlocks :
         \E copy_ok \in AllocOutcomes(DecryptReached(block)) :
           \E write_ok \in AllocOutcomes(DecryptReached(block) /\ copy_ok) :
             upipe_dvbcsa_dec_input(block, copy_ok, write_ok)
    \/ \E def \in FlowDefs \cup {EXPECTED_FLOW_DEF}, dup_ok \in BOOLEAN :
           upipe_dvbcsa_dec_set_flow_def(def, dup_ok)
    \/ \E text \in {<<>>} \cup { <<t>> : t \in KeyTexts } :
         \E alloc_ok \in KeyAllocOutcomes(text) :
           upipe_dvbcsa_dec_set_key(text, alloc_ok)
    \/ \E pid \in DecPids : upipe_dvbcsa_common_add_pid(pid)
    \/ \E pid \in DecPids : upipe_dvbcsa_common_del_pid(pid)

SpecDec == Init /\ [][NextDec]_vars

Next == NextSplit \/ NextDec

Spec == Init /\ [][Next]_vars

\* The two pipes share no state: a behaviour that calls only one of them.
\* sp_op and dec_op keep the value Init gives them until the first call of
\* their pipe.
SplitIdle == sp_op.op = "alloc"

DecIdle == dec_op.op = "alloc"

NextOneStage ==
    \/ DecIdle /\ NextSplit
    \/ SplitIdle /\ NextDec

SpecOneStage == Init /\ [][NextOneStage]_vars

\* ------------------------------------------------ demultiplexer properties

\* the last call dispatched a data packet with a readable header, after a
\* compatible input flow definition
SplitDispatched ==
    /\ sp_op.op = "input"
    /\ sp_op.kind = "data"
    /\ flow_def_ok
    /\ uref_block_peek_ok(sp_op.arg)

\* number of events named name for PID p in the sequence evs
RECURSIVE CountEv(_, _, _)
CountEv(evs, name, p) ==
    IF evs = <<>>
    THEN 0
    ELSE (IF Head(evs).ev = name /\ Head(evs).pid = <<p>> THEN 1 ELSE 0)
         + CountEv(Tail(evs), name, p)

\* C1: a set_flow_def or release call on a subscriber emits set_pid(p)
\* exactly once if it takes slot p from no subscriber to at least one and
\* not at all otherwise, and unset_pid(p) exactly once if it takes slot p
\* from at least one subscriber to none and not at all otherwise.
C1_NotifiedOncePerTransition ==
    [][ (sp_op'.op \in {"set_flow_def", "output_release"} /\ ~fault')
          => \A p \in DOMAIN pids :
               LET was == pids[p].outputs # <<>>
                   is == pids'[p].outputs # <<>>
               IN /\ CountEv(events', "set_pid", p)
                       = (IF ~was /\ is THEN 1 ELSE 0)
                  /\ CountEv(events', "unset_pid", p)
                       = (IF was /\ ~is THEN 1 ELSE 0)
      ]_vars

\* packets of the last call handed to subscriber s
DeliveredTo(s) == { i \in 1..Len(delivered) : delivered[i].to = s }

\* C2: when a packet of PID p is dispatched without a failed duplication,
\* every subscriber whose flow definition carries p gets a packet, and no
\* subscriber that was torn down or whose flow definition carries another
\* PID gets one.
C2_DispatchFollowsSubscription ==
    (SplitDispatched /\ events = <<>>)
      => \A s \in Outputs :
           LET p == ts_get_pid(sp_op.arg) IN
           /\ (outs[s].alive /\ outs[s].flow_def = <<p>>)
                => DeliveredTo(s) # {}
           /\ (~outs[s].alive
                 \/ (outs[s].flow_def # <<>> /\ outs[s].flow_def # <<p>>))
                => DeliveredTo(s) = {}

\* C3: when a packet is dispatched to a slot that lists N >= 1 subscribers
\* and no duplication fails, N packets are output, one to each subscriber,
\* in the order of the slot, all with the bytes of the input; all but the
\* last are duplicates, the last is the input's buffer, and the input is not
\* freed.
C3_OnePacketPerSubscriber ==
    (SplitDispatched /\ events = <<>>
       /\ pids[ts_get_pid(sp_op.arg)].outputs # <<>>)
      => LET list == pids[ts_get_pid(sp_op.arg)].outputs
             subscribers == { list[i] : i \in 1..Len(list) }
         IN /\ Len(delivered) = Cardinality(subscribers)
            /\ \A s \in subscribers : Cardinality(DeliveredTo(s)) = 1
            /\ \A i \in 1..Len(delivered) :
                 /\ i <= Len(list)
                 /\ delivered[i].to = list[i]
                 /\ delivered[i].block = sp_op.arg
                 /\ delivered[i].buf
                      = (IF i = Len(delivered) THEN "orig" ELSE "dup")
            /\ freed = 0

\* C7: a set_flow_def whose PID is 8192 or more returns false, leaves every
\* slot's list and set flag as they were and emits neither set_pid nor
\* unset_pid, whatever the subscriber's state before the call.
C7_OutOfRangePidChangesNothing ==
    [][ (sp_op'.op = "set_flow_def" /\ sp_op'.arg # <<>>
           /\ sp_op'.arg[1] >= MAX_PIDS)
          => /\ sp_op'.ret = FALSE
             /\ pids' = pids
             /\ \A i \in 1..Len(events') :
                  events'[i].ev \notin {"set_pid", "unset_pid"}
      ]_vars

\* occurrences of output s in the list of a slot
Occurrences(list, s) == Cardinality({ i \in 1..Len(list) : list[i] = s })

\* C11: when a duplication fails during the dispatch of a packet to a slot
\* that lists N subscribers, at the k-th of them with k < N, the k-1
\* subscribers before it have each been handed exactly one duplicate, in
\* the order of the slot, the subscribers from the k-th on are handed
\* nothing, the packet is freed exactly once, one allocation error is
\* thrown and nothing else, and the registry, the subscribers and the ready
\* flag are what they were.
C11_DupFailureStopsFanOut ==
    [][ (/\ sp_op'.op = "input"
         /\ sp_op'.kind = "data"
         /\ flow_def_ok
         /\ uref_block_peek_ok(sp_op'.arg)
         /\ \E i \in 1..Len(events') : events'[i].ev = "aerror")
          => LET list == pids[ts_get_pid(sp_op'.arg)].outputs
                 k == Len(delivered') + 1
             IN /\ k < Len(list)
                /\ \A i \in 1..(k - 1) :
                     /\ delivered'[i]
                          = [to |-> list[i], buf |-> "dup",
                             block |-> sp_op'.arg]
                     /\ Cardinality({ j \in 1..Len(delivered') :
                                        delivered'[j].to = list[i] }) = 1
                /\ \A i \in k..Len(list) :
                     \A j \in 1..Len(delivered') : delivered'[j].to # list[i]
                /\ freed' = 1
                /\ events' = <<Ev("aerror", <<>>, "split", "none")>>
                /\ pids' = pids
                /\ outs' = outs
                /\ flow_def_ok' = flow_def_ok
                /\ ~fault'
      ]_vars

\* C12: every subscriber is listed in at most one slot of the registry and
\* at most once in it; and a subscriber with a flow definition is listed in
\* the slot of that flow definition's PID.
C12_AtMostOneSlot ==
    \A s \in Outputs :
      /\ \A p \in DOMAIN pids : Occurrences(pids[p].outputs, s) <= 1
      /\ \A p, q \in DOMAIN pids :
           (Occurrences(pids[p].outputs, s) > 0
              /\ Occurrences(pids[q].outputs, s) > 0) => p = q
      /\ (outs[s].alive /\ outs[s].flow_def # <<>>)
           => Occurrences(pids[outs[s].flow_def[1]].outputs, s) = 1

\* the flow definition d starts with "block.mpegts."
MatchesExpected(d) ==
    /\ Len(d) >= Len(EXPECTED_FLOW_DEF)
    /\ \A i \in 1..Len(EXPECTED_FLOW_DEF) : d[i] = EXPECTED_FLOW_DEF[i]

\* the events are exactly one flow definition error
OneFlowDefError(evs) == Len(evs) = 1 /\ evs[1].ev = "flow_def_error"

\* C13: flow_def_ok is false after allocation; an input flow definition
\* sets it to true when it starts with the expected prefix and to false,
\* with a flow definition error, when it does not; nothing else changes it;
\* a data uref input while it is false is freed, handed to no subscriber and
\* reported by one flow definition error; and urefs are handed to
\* subscribers only while it is true.
C13_ReadyFlagGatesDispatch ==
    /\ (sp_op.op = "alloc" => ~flow_def_ok)
    /\ [][ /\ (sp_op'.op = "input" /\ sp_op'.kind = "flow_def")
                => /\ flow_def_ok' = MatchesExpected(sp_op'.arg)
                   /\ delivered' = <<>>
                   /\ ~MatchesExpected(sp_op'.arg) => OneFlowDefError(events')
           /\ (flow_def_ok' # flow_def_ok)
                => (sp_op'.op = "input" /\ sp_op'.kind = "flow_def")
           /\ (sp_op'.op = "input" /\ sp_op'.kind \in {"data", "nobuf"}
                 /\ ~flow_def_ok)
                => /\ delivered' = <<>>
                   /\ freed' = 1
                   /\ OneFlowDefError(events')
           /\ delivered' # <<>> => flow_def_ok
         ]_vars

\* a data packet whose slot lists a subscriber was dropped with a flow
\* definition error because flow_def_ok was false
C13_Witness ==
    /\ sp_op.op = "input"
    /\ sp_op.kind = "data"
    /\ ~flow_def_ok
    /\ uref_block_peek_ok(sp_op.arg)
    /\ pids[ts_get_pid(sp_op.arg)].outputs # <<>>
    /\ delivered = <<>>
    /\ freed = 1
    /\ OneFlowDefError(events)

\* C22: a set_flow_def(p) call of a subscriber made while slot p already
\* lists at least one subscriber (the caller itself included) emits neither
\* set_pid(p) nor unset_pid(p).
C22_ResubscriptionIsSilent ==
    [][ (/\ sp_op'.op = "set_flow_def"
         /\ sp_op'.arg # <<>>
         /\ sp_op'.arg[1] \in DOMAIN pids
         /\ pids[sp_op'.arg[1]].outputs # <<>>)
          => /\ CountEv(events', "set_pid", sp_op'.arg[1]) = 0
             /\ CountEv(events', "unset_pid", sp_op'.arg[1]) = 0
      ]_vars

\* C23: when the demultiplexer is ready and dispatches a packet whose
\* 4-byte header cannot be read, the packet is freed once, one allocation
\* error is thrown on the demultiplexer, and nothing is output to any
\* subscriber.
C23_UnreadableHeaderFailsClosed ==
    (/\ sp_op.op = "input"
     /\ sp_op.kind = "data"
     /\ flow_def_ok
     /\ ~uref_block_peek_ok(sp_op.arg))
      => /\ delivered = <<>>
         /\ freed = 1
         /\ events = <<Ev("aerror", <<>>, "split", "none")>>
         /\ ~fault

\* a packet of fewer than 4 bytes was dispatched while every slot of the
\* packets' PIDs listed a subscriber
C23_Witness ==
    /\ sp_op.op = "input"
    /\ sp_op.kind = "data"
    /\ flow_def_ok
    /\ Len(sp_op.arg) < TS_HEADER_SIZE
    /\ pids[0].outputs # <<>>
    /\ pids[MAX_PIDS - 1].outputs # <<>>
    /\ delivered = <<>>
    /\ freed = 1

\* C24: a subscriber that was torn down is listed in no slot and is handed
\* no packet; the release of the last reference empties the slots of the
\* subscriber, emits unset_pid(p) exactly once for a slot p that listed
\* nobody else and not at all for any other slot, and changes no slot when
\* the subscriber has no flow definition.
C24_TeardownUnsubscribes ==
    /\ [](\A s \in Outputs :
            ~outs[s].alive
              => /\ \A p \in DOMAIN pids : Occurrences(pids[p].outputs, s) = 0
                 /\ \A i \in 1..Len(delivered) : delivered[i].to # s)
    /\ [][ (sp_op'.op = "output_release" /\ sp_op'.ret)
             => LET o == sp_op'.out IN
                /\ \A p \in DOMAIN pids :
                     /\ Occurrences(pids'[p].outputs, o) = 0
                     /\ CountEv(events', "set_pid", p) = 0
                     /\ CountEv(events', "unset_pid", p)
                          = (IF /\ pids[p].outputs # <<>>
                                /\ Occurrences(pids[p].outputs, o)
                                     = Len(pids[p].outputs)
                             THEN 1 ELSE 0)
                /\ outs[o].flow_def = <<>> => pids' = pids
         ]_vars

\* C26: no event thrown by the demultiplexer takes as argument a uref that
\* the handler has already freed or handed to an output.
C26_NoUseAfterRelinquish ==
    \A i \in 1..Len(events) : events[i].arg # "freed"

\* C9: a packet dispatched to a slot that lists no subscriber is freed by
\* the demultiplexer, nothing is output and no event is thrown.
C9_NoSubscriberConsumes ==
    (SplitDispatched /\ pids[ts_get_pid(sp_op.arg)].outputs = <<>>)
      => /\ delivered = <<>>
         /\ freed = 1
         /\ events = <<>>

\* a packet was dispatched to an empty slot while another slot had a
\* subscriber
C9_Witness ==
    /\ SplitDispatched
    /\ pids[ts_get_pid(sp_op.arg)].outputs = <<>>
    /\ \E q \in DOMAIN pids : pids[q].outputs # <<>>
    /\ \E s \in Outputs : outs[s].alive /\ outs[s].flow_def # <<>>
    /\ delivered = <<>>
    /\ freed = 1

\* -------------------------------------------------- descrambler properties

\* the decryption gates of a packet with a readable header, for whitelist wl
DecGates(b, wl) ==
    /\ uref_block_peek_ok(b)
    /\ ts_get_scrambling(b) = 2
    /\ ts_has_payload(b)
    /\ ts_get_pid(b) \in wl

\* the last call processed a packet
DecInputDone == dec_op.op = "input"

\* C4: a packet with a readable header of which a gate fails (scrambling
\* control is not 2, no payload, or PID not in the whitelist) is forwarded
\* with its bytes as they came in and the cipher is not called; and a
\* forwarded packet differs from the input only if a key is present and all
\* the gates hold.
C4_GateFailurePassesThrough ==
    DecInputDone =>
        LET b == dec_op.arg IN
        /\ (uref_block_peek_ok(b) /\ ~DecGates(b, dec_pids))
              => (dec_res.output = <<b>> /\ dec_res.cipher = <<>>)
        /\ (dec_res.output # <<>> /\ dec_res.output # <<b>>)
              => (key # <<>> /\ DecGates(b, dec_pids))

\* a scrambled packet with payload whose PID is not in the non-empty
\* whitelist went through a descrambler that holds a key
C4_Witness ==
    /\ DecInputDone
    /\ key # <<>>
    /\ dec_pids # {}
    /\ uref_block_peek_ok(dec_op.arg)
    /\ ts_get_scrambling(dec_op.arg) = 2
    /\ ts_has_payload(dec_op.arg)
    /\ ts_get_pid(dec_op.arg) \notin dec_pids
    /\ Len(dec_op.arg) = 188
    /\ dec_res.output = <<dec_op.arg>>

\* the packet o is the descrambled form of the packet b: the same size,
\* scrambling control 0, the other header bits as in b, and from byte 4 on
\* the output of the cipher for the stored key on the same bytes of b
DescrambledFrom(b, o) ==
    /\ Len(o) = Len(b)
    /\ ts_get_scrambling(o) = 0
    /\ SubSeq(o, 1, 3) = SubSeq(b, 1, 3)
    /\ o[4] % 64 = b[4] % 64
    /\ SubSeq(o, TS_HEADER_SIZE + 1, Len(o))
         = dvbcsa_decrypt(key[1], SubSeq(b, TS_HEADER_SIZE + 1, Len(b)))

\* the case of C5: a key is set and the packet processed passes the gates
\* and has no adaptation field
DecPlainCase ==
    /\ DecInputDone
    /\ key # <<>>
    /\ DecGates(dec_op.arg, dec_pids)
    /\ ~ts_has_adaptation(dec_op.arg)

\* C5, as stated: a packet with scrambling control 2, payload, no adaptation
\* field and a whitelisted PID, processed with a key set, is forwarded as
\* exactly one packet that is its descrambled form.
C5_AlwaysDescrambled ==
    DecPlainCase =>
        /\ Len(dec_res.output) = 1
        /\ DescrambledFrom(dec_op.arg, dec_res.output[1])

\* C5, amended: the same packet is forwarded as exactly one packet that is
\* its descrambled form provided the copy of the buffer and its mapping for
\* writing succeed; when one of them fails the packet is freed, nothing is
\* forwarded and the cipher is not called.
C5_DescrambledUnlessAllocFails ==
    DecPlainCase =>
        IF dec_op.env.copy_ok /\ dec_op.env.write_ok
        THEN /\ Len(dec_res.output) = 1
             /\ DescrambledFrom(dec_op.arg, dec_res.output[1])
             /\ dec_res.freed = 0
             /\ dec_res.cipher = <<[key |-> key[1], off |-> TS_HEADER_SIZE,
                                    len |-> Len(dec_op.arg) - TS_HEADER_SIZE]>>
        ELSE /\ dec_res.output = <<>>
             /\ dec_res.freed = 1
             /\ dec_res.cipher = <<>>

\* a full-size packet was descrambled: one packet came out, not the input
C5_Witness ==
    /\ DecPlainCase
    /\ Len(dec_op.arg) = 188
    /\ Len(dec_res.output) = 1
    /\ dec_res.output[1] # dec_op.arg
    /\ ts_get_scrambling(dec_res.output[1]) = 0

\* a text that is not exactly one control word: wrong length or a character
\* that is no hexadecimal digit
InvalidKeyText(t) ==
    ~(Len(t) = CwTextLen /\ \A i \in 1..Len(t) : t[i] \in DOMAIN HexVal)

\* C6: set_key with a text that is not exactly one control word returns
\* UBASE_ERR_INVALID and leaves no key, whatever the key was; a descrambler
\* without key gets one only from a set_key with a valid text; and every
\* packet processed without key is output as it came in.
C6_RejectedKeyLeavesNoKey ==
    [][ /\ (dec_op'.op = "set_key" /\ dec_op'.arg # <<>>
              /\ InvalidKeyText(dec_op'.arg[1]))
           => (dec_op'.ret = "UBASE_ERR_INVALID" /\ key' = <<>>)
        /\ (key = <<>> /\ key' # <<>>)
           => (dec_op'.op = "set_key" /\ dec_op'.arg # <<>>
                 /\ ~InvalidKeyText(dec_op'.arg[1]))
        /\ (dec_op'.op = "input" /\ key = <<>>)
           => (dec_res'.output = <<dec_op'.arg>> /\ dec_res'.cipher = <<>>)
      ]_vars

\* a text was rejected while a key was set: the key was freed, none is left
C6_Witness ==
    /\ dec_op.op = "set_key"
    /\ dec_op.arg # <<>>
    /\ InvalidKeyText(dec_op.arg[1])
    /\ dec_op.ret = "UBASE_ERR_INVALID"
    /\ dec_res.key_free # <<>>
    /\ dec_res.key_free[1] # <<>>
    /\ key = <<>>

\* C8: without a key every packet processed is output exactly once, with the
\* bytes it came in with, nothing is freed and the cipher is not called,
\* whatever its header and whatever the whitelist.
C8_NoKeyPassesEverything ==
    (DecInputDone /\ key = <<>>)
        => /\ dec_res.output = <<dec_op.arg>>
           /\ dec_res.freed = 0
           /\ dec_res.cipher = <<>>

\* a scrambled packet with payload and a whitelisted PID went through a
\* descrambler that holds no key
C8_Witness ==
    /\ DecInputDone
    /\ key = <<>>
    /\ DecGates(dec_op.arg, dec_pids)
    /\ Len(dec_op.arg) = 188
    /\ dec_res.output = <<dec_op.arg>>

\* the last call was a set_flow_def with a definition that does not start
\* with "block.mpegts."
DecFlowDefRejected(op) ==
    op.op = "set_flow_def" /\ ~MatchesExpected(op.arg)

\* C14, as stated: a set_flow_def whose definition does not match is
\* rejected with an error status and the stored flow definition unchanged,
\* and a packet input after it is dropped: nothing is output.
C14_RejectedFlowDefStopsPackets ==
    [][ /\ DecFlowDefRejected(dec_op')
             => (dec_op'.ret # "UBASE_ERR_NONE"
                   /\ dec_flow_def' = dec_flow_def)
        /\ (DecFlowDefRejected(dec_op) /\ dec_op'.op = "input")
             => dec_res'.output = <<>>
      ]_vars

\* C14, amended: a set_flow_def whose definition does not match returns
\* UBASE_ERR_INVALID and leaves the stored flow definition, the key and the
\* PID list unchanged; the descrambler has no ready state, and the packet
\* input after it is processed as any other: output as it is without a key
\* or when a gate fails, descrambled when the gates hold and the buffer
\* could be copied and written.
C14_RejectedFlowDefChangesNothing ==
    [][ /\ DecFlowDefRejected(dec_op')
             => /\ dec_op'.ret = "UBASE_ERR_INVALID"
                /\ dec_flow_def' = dec_flow_def
                /\ key' = key
                /\ dec_pids' = dec_pids
        /\ (DecFlowDefRejected(dec_op) /\ dec_op'.op = "input")
             => LET b == dec_op'.arg IN
                /\ (key = <<>>
                      \/ (uref_block_peek_ok(b) /\ ~DecGates(b, dec_pids)))
                     => dec_res'.output = <<b>>
                /\ (key # <<>> /\ DecGates(b, dec_pids)
                      /\ ~ts_has_adaptation(b)
                      /\ dec_op'.env.copy_ok /\ dec_op'.env.write_ok)
                     => /\ Len(dec_res'.output) = 1
                        /\ ts_get_scrambling(dec_res'.output[1]) = 0
                        /\ dec_res'.cipher # <<>>
      ]_vars

\* a definition was rejected by a descrambler that holds a flow definition,
\* a key and a PID
C14_Witness ==
    /\ DecFlowDefRejected(dec_op)
    /\ dec_op.ret = "UBASE_ERR_INVALID"
    /\ dec_flow_def # <<>>
    /\ key # <<>>
    /\ dec_pids # {}

\* C15, as stated: with or without a key, a packet of fewer than 4 bytes is
\* freed, nothing is output and the failure to read the header is logged.
C15_ShortHeaderAlwaysDropped ==
    (DecInputDone /\ ~uref_block_peek_ok(dec_op.arg))
        => /\ dec_res.output = <<>>
           /\ dec_res.freed = 1
           /\ dec_res.log = <<"fail to read ts header">>

\* C15, amended: with a key set, a packet of fewer than 4 bytes is freed,
\* nothing is output and the failure to read the header is logged; without
\* a key it is output as it came in and nothing is logged.
C15_ShortHeaderDroppedWithKey ==
    (DecInputDone /\ ~uref_block_peek_ok(dec_op.arg))
        => IF key # <<>>
           THEN /\ dec_res.output = <<>>
                /\ dec_res.freed = 1
                /\ dec_res.cipher = <<>>
                /\ dec_res.log = <<"fail to read ts header">>
           ELSE /\ dec_res.output = <<dec_op.arg>>
                /\ dec_res.freed = 0
                /\ dec_res.log = <<>>

\* a packet of fewer than 4 bytes was dropped by a descrambler with a key
C15_Witness ==
    /\ DecInputDone
    /\ ~uref_block_peek_ok(dec_op.arg)
    /\ key # <<>>
    /\ dec_res.output = <<>>
    /\ dec_res.log = <<"fail to read ts header">>

\* C16: a call that processes a packet writes to no buffer but the copy it
\* made: whenever it calls the cipher or outputs bytes that differ from the
\* input, it has attached a copy to the uref in place of the buffer received,
\* and ts_set_scrambling and dvbcsa_decrypt have written to that copy; in
\* every other case it has written nothing.
C16_WritesOnlyToCopy ==
    (DecInputDone /\ ~fault)
        => /\ \A i \in 1..Len(dec_res.writes) : dec_res.writes[i].buf = "copy"
           /\ (dec_res.cipher # <<>>
                 \/ (dec_res.output # <<>> /\ dec_res.output # <<dec_op.arg>>))
                => /\ dec_res.attached = <<"copy">>
                   /\ { dec_res.writes[i].by : i \in 1..Len(dec_res.writes) }
                        = {"ts_set_scrambling", "dvbcsa_decrypt"}
           /\ dec_res.writes # <<>> => dec_res.cipher # <<>>

\* a full-size packet was descrambled and output with other bytes than it
\* came in with
C16_Witness ==
    /\ DecInputDone
    /\ ~fault
    /\ Len(dec_op.arg) = 188
    /\ dec_res.cipher # <<>>
    /\ Len(dec_res.output) = 1
    /\ dec_res.output[1] # dec_op.arg
    /\ dec_res.writes # <<>>

\* the 8 bytes written as the 16 hexadecimal digits of t
KeyOfText(t) ==
    [i \in 1..(CwTextLen \div 2) |->
       16 * HexVal[t[2 * i - 1]] + HexVal[t[2 * i]]]

\* C17: the descrambler holds no key or one key; a set_key frees the key
\* held before, and then: without text it returns UBASE_ERR_NONE and leaves
\* no key, with a text it accepts it leaves the key of that text, and when
\* it returns an error it leaves no key; no other call changes the key; and
\* every cipher call made for a packet uses the key held at that time.
C17_KeyFollowsLastSetKey ==
    /\ [](Len(key) <= 1)
    /\ [][ /\ dec_op'.op = "set_key"
                => /\ dec_res'.key_free = <<key>>
                   /\ dec_op'.arg = <<>>
                        => (dec_op'.ret = "UBASE_ERR_NONE" /\ key' = <<>>)
                   /\ (dec_op'.arg # <<>> /\ dec_op'.ret = "UBASE_ERR_NONE")
                        => /\ ~InvalidKeyText(dec_op'.arg[1])
                           /\ key' = <<KeyOfText(dec_op'.arg[1])>>
                   /\ dec_op'.ret # "UBASE_ERR_NONE" => key' = <<>>
           /\ key' # key => dec_op'.op = "set_key"
           /\ dec_op'.op = "input"
                => \A i \in 1..Len(dec_res'.cipher) :
                     key # <<>> /\ dec_res'.cipher[i].key = key[1]
         ]_vars

\* a control word was accepted while another key was set: the old key was
\* freed and the key held is the one of the text
C17_Witness ==
    /\ dec_op.op = "set_key"
    /\ dec_op.arg # <<>>
    /\ dec_op.ret = "UBASE_ERR_NONE"
    /\ key = <<KeyOfText(dec_op.arg[1])>>
    /\ dec_res.key_free # <<>>
    /\ dec_res.key_free[1] # <<>>
    /\ dec_res.key_free[1] # key

\* C19: after every completed operation of the demultiplexer, the set flag of
\* every PID slot is true exactly when the slot's list of outputs is not
\* empty.
C19_SetFlagIffSubscribed ==
    \A p \in DOMAIN pids : pids[p].set <=> (pids[p].outputs # <<>>)

\* an unsubscription emptied one slot, whose flag went back to false, while
\* another slot still has an output and its flag set
C19_Witness ==
    /\ ~fault
    /\ sp_op.op = "output_release" /\ sp_op.ret
    /\ \E p \in DOMAIN pids :
         /\ pids[p].outputs = <<>> /\ ~pids[p].set
         /\ \E i \in 1..Len(events) :
              events[i].ev = "unset_pid" /\ events[i].pid = <<p>>
    /\ \E q \in DOMAIN pids : pids[q].outputs # <<>> /\ pids[q].set

\* C18: a call that processes one packet, whatever its outcome, leaves the
\* configuration as it was (descrambler: key, PID list, flow definition;
\* demultiplexer: every slot's list and set flag, the subscribers, the
\* ready flag, and no set_pid or unset_pid is thrown) and leaves the stage
\* able to process the next packet.
C18_PacketLeavesConfiguration ==
    [][ /\ dec_op'.op = "input"
             => /\ key' = key
                /\ dec_pids' = dec_pids
                /\ dec_flow_def' = dec_flow_def
                /\ ~fault'
        /\ (sp_op'.op = "input" /\ sp_op'.kind # "flow_def")
             => /\ pids' = pids
                /\ outs' = outs
                /\ flow_def_ok' = flow_def_ok
                /\ \A i \in 1..Len(events') :
                     events'[i].ev \notin {"set_pid", "unset_pid"}
                /\ ~fault'
      ]_vars

\* the case of C20: a key is set and the packet processed passes the gates
\* and has the adaptation field flag with a length byte of at most 182
DecAdaptationCase ==
    /\ DecInputDone
    /\ key # <<>>
    /\ DecGates(dec_op.arg, dec_pids)
    /\ ts_has_adaptation(dec_op.arg)
    /\ Len(dec_op.arg) > TS_HEADER_SIZE
    /\ dec_op.arg[TS_HEADER_SIZE + 1] <= 182

\* what C20 says of the packet b with adaptation field length L: the cipher
\* is called only on [5+L, end) with the stored key, and the packet
\* forwarded, if any, went through the cipher and has the size of b, the
\* header of b with scrambling control 0, the length byte and the adaptation
\* field of b, and from 5+L on the output of the cipher on the bytes of b
AdaptationFieldSkipped(b, L) ==
    LET start == TS_HEADER_SIZE + 1 + L IN
    /\ ~fault
    /\ \A i \in 1..Len(dec_res.cipher) :
         dec_res.cipher[i] =
             [key |-> key[1], off |-> start, len |-> Len(b) - start]
    /\ Len(dec_res.output) <= 1
    /\ dec_res.output # <<>> =>
         LET o == dec_res.output[1] IN
         /\ Len(dec_res.cipher) = 1
         /\ Len(o) = Len(b)
         /\ SubSeq(o, 1, 3) = SubSeq(b, 1, 3)
         /\ o[4] % 64 = b[4] % 64
         /\ ts_get_scrambling(o) = 0
         /\ SubSeq(o, TS_HEADER_SIZE + 1, start)
              = SubSeq(b, TS_HEADER_SIZE + 1, start)
         /\ SubSeq(o, start + 1, Len(o))
              = dvbcsa_decrypt(key[1], SubSeq(b, start + 1, Len(b)))

\* C20: for a packet that passes the gates with a key set and has an
\* adaptation field of length L, 0 <= L <= 182, the payload starts at
\* 4 + 1 + L: the forwarded packet has the input's bytes in [4, 5+L), the
\* input's bytes in [0, 4) except for scrambling control 0, and the cipher is
\* applied exactly to [5+L, end of packet).
C20_AdaptationFieldSkipped ==
    DecAdaptationCase =>
        AdaptationFieldSkipped(dec_op.arg, dec_op.arg[TS_HEADER_SIZE + 1])

\* the same for the packets that are long enough to hold the adaptation
\* field they announce
C20_AdaptationFieldSkippedWhenHeld ==
    (/\ DecAdaptationCase
     /\ Len(dec_op.arg) >= TS_HEADER_SIZE + 1 + dec_op.arg[TS_HEADER_SIZE + 1])
       => AdaptationFieldSkipped(dec_op.arg, dec_op.arg[TS_HEADER_SIZE + 1])

\* a packet of 188 bytes with an adaptation field of 182 bytes was
\* descrambled and forwarded
C20_HeldWitness ==
    /\ DecAdaptationCase
    /\ Len(dec_op.arg) = 188
    /\ dec_op.arg[TS_HEADER_SIZE + 1] = 182
    /\ dec_res.output # <<>>
    /\ dec_res.output # <<dec_op.arg>>

\* C21: the cipher is only invoked on a range inside the packet, whatever
\* the packet's length: its length argument is never negative and its range
\* ends at the packet's end; and a packet that passes the gates with a key
\* set and announces an adaptation field of length L <= 182 but holds fewer
\* than 4 + 1 + L bytes is dropped (freed, nothing output, cipher not called).
C21_CipherRangeInsidePacket ==
    DecInputDone =>
        LET b == dec_op.arg IN
        /\ \A i \in 1..Len(dec_res.cipher) :
             /\ dec_res.cipher[i].len >= 0
             /\ dec_res.cipher[i].off + dec_res.cipher[i].len <= Len(b)
        /\ (/\ DecAdaptationCase
            /\ Len(b) < TS_HEADER_SIZE + 1 + b[TS_HEADER_SIZE + 1])
              => /\ ~fault
                 /\ dec_res.cipher = <<>>
                 /\ dec_res.output = <<>>
                 /\ dec_res.freed = 1

\* packets of the last demultiplexer call that are the uref received, not
\* a duplicate of it
OriginalsDelivered == { i \in 1..Len(delivered) : delivered[i].buf = "orig" }

\* C25: every call that processes a packet and returns disposes of the
\* packet exactly once.  The descrambler either outputs exactly one uref and
\* frees none, or outputs none and frees exactly one.  The demultiplexer
\* either hands the uref it received to exactly one output, the last one of
\* the fan-out, and frees none, or hands it to nobody and frees it exactly
\* once.
C25_DisposedExactlyOnce ==
    /\ (dec_op.op = "input" /\ ~fault)
         => \/ Len(dec_res.output) = 1 /\ dec_res.freed = 0
            \/ dec_res.output = <<>> /\ dec_res.freed = 1
    /\ (sp_op.op = "input" /\ ~fault)
         => \/ /\ OriginalsDelivered = {Len(delivered)}
               /\ delivered # <<>>
               /\ freed = 0
            \/ /\ OriginalsDelivered = {}
               /\ freed = 1

\* the demultiplexer handed duplicates and then the uref itself to the
\* outputs of a slot
C25_Witness ==
    /\ sp_op.op = "input"
    /\ sp_op.kind = "data"
    /\ ~fault
    /\ Len(delivered) >= 2
    /\ delivered[1].buf = "dup"
    /\ delivered[Len(delivered)].buf = "orig"
    /\ freed = 0

\* the case of C10 for packet b: key set, gates passed, adaptation field
\* flag set and an adaptation field length of 183 or more
DecLongAdaptation(b, k, wl) ==
    /\ k # <<>>
    /\ DecGates(b, wl)
    /\ ts_has_adaptation(b)
    /\ Len(b) > TS_HEADER_SIZE
    /\ b[TS_HEADER_SIZE + 1] >= 183

\* C10: a packet that passes the gates with a key set and carries an
\* adaptation field length of 183 or more is dropped: nothing is output,
\* the cipher is not called, the packet is freed, and the key and the
\* whitelist are what they were.
C10_LongAdaptationDropped ==
    [][ (dec_op'.op = "input" /\ DecLongAdaptation(dec_op'.arg, key, dec_pids))
           => /\ dec_res'.output = <<>>
              /\ dec_res'.cipher = <<>>
              /\ dec_res'.freed = 1
              /\ key' = key
              /\ dec_pids' = dec_pids
      ]_vars

\* a packet with adaptation field length 183 was dropped by a descrambler
\* with a key and the packet's PID in the whitelist
C10_Witness ==
    /\ DecInputDone
    /\ DecLongAdaptation(dec_op.arg, key, dec_pids)
    /\ dec_op.arg[TS_HEADER_SIZE + 1] = 183
    /\ dec_res.output = <<>>
    /\ dec_res.log = <<"invalid adaptation field received">>


====
